---- MODULE Spec2Model ----
(***************************************************************************)
(* A model of svg-fixer (src/index.js): convertSvgStylesToInline, its      *)
(* textual fallback, and convertToReactNativeSvg.                          *)
(*                                                                         *)
(* Text is a sequence of one-character strings, so that the regular        *)
(* expressions of the source act on characters as they do in the program.  *)
(* A document is an arena of nodes addressed by identifier: an element     *)
(* reference held by the program stays valid while the tree around it is   *)
(* rewritten, exactly as a DOM node reference does.                        *)
(***************************************************************************)
EXTENDS Integers, Sequences, FiniteSets, TLC

(***************************************************************************)
(* Strings                                                                 *)
(***************************************************************************)
Chars(s) == [i \in 1..Len(s) |-> SubSeq(s, i, i)]

Min(S) == CHOOSE m \in S : \A n \in S : m <= n

\* \s of a JavaScript regular expression, and the characters trim() strips
IsSpace(c) == c \in {" ", "\n", "\t", "\r"}

\* \w of a JavaScript regular expression
WordChars == {"a", "b", "c", "d", "e", "f", "g", "h", "i", "j", "k", "l", "m",
              "n", "o", "p", "q", "r", "s", "t", "u", "v", "w", "x", "y", "z",
              "A", "B", "C", "D", "E", "F", "G", "H", "I", "J", "K", "L", "M",
              "N", "O", "P", "Q", "R", "S", "T", "U", "V", "W", "X", "Y", "Z",
              "0", "1", "2", "3", "4", "5", "6", "7", "8", "9", "_"}

IsWord(c) == c \in WordChars

\* the suffix of s from position i on
From(s, i) == SubSeq(s, i, Len(s))

\* String.prototype.indexOf for a one-character needle, 1-based, 0 if absent
IndexOf(s, c, from) ==
    LET hits == {i \in from..Len(s) : s[i] = c}
    IN  IF hits = {} THEN 0 ELSE Min(hits)

\* the literal lit occurs in s at position i
MatchAt(s, i, lit) ==
    /\ i >= 1
    /\ i + Len(lit) - 1 <= Len(s)
    /\ SubSeq(s, i, i + Len(lit) - 1) = lit

\* the leftmost occurrence of the literal lit in s at or after from, 0 if none
Find(s, lit, from) ==
    LET hits == {i \in from..Len(s) : MatchAt(s, i, lit)}
    IN  IF hits = {} THEN 0 ELSE Min(hits)

\* String.prototype.trim
Trim(s) ==
    LET keep == {i \in 1..Len(s) : ~IsSpace(s[i])}
    IN  IF keep = {} THEN <<>>
        ELSE SubSeq(s, Min(keep), CHOOSE m \in keep : \A n \in keep : n <= m)

\* String.prototype.split with a one-character separator
RECURSIVE Split(_, _)
Split(s, c) ==
    LET i == IndexOf(s, c, 1)
    IN  IF i = 0 THEN <<s>>
        ELSE <<SubSeq(s, 1, i - 1)>> \o Split(From(s, i + 1), c)

\* String.prototype.split(/\s+/)
RECURSIVE SplitSpaces(_)
SplitSpaces(s) ==
    LET sp == {i \in 1..Len(s) : IsSpace(s[i])}
    IN  IF sp = {} THEN <<s>>
        ELSE LET i == Min(sp)
                 rest == {j \in i..Len(s) : ~IsSpace(s[j])}
             IN  IF rest = {} THEN <<SubSeq(s, 1, i - 1), <<>>>>
                 ELSE <<SubSeq(s, 1, i - 1)>> \o SplitSpaces(From(s, Min(rest)))

\* Array.prototype.join
RECURSIVE Join(_, _)
Join(parts, sep) ==
    IF parts = <<>> THEN <<>>
    ELSE IF Len(parts) = 1 THEN parts[1]
    ELSE parts[1] \o sep \o Join(Tail(parts), sep)

Range(seq) == {seq[i] : i \in 1..Len(seq)}

(***************************************************************************)
(* Documents (the JSDOM tree)                                              *)
(*                                                                         *)
(* nodes[i] is the node with identifier i; an element has a tag, an        *)
(* ordered list of <<name, value>> attributes and an ordered list of child *)
(* identifiers; a text node has data.  parent is the parent's identifier,  *)
(* DocumentNode for the child of the document itself, Detached for a node  *)
(* that is in no tree.                                                     *)
(***************************************************************************)
DocumentNode == 0
Detached == -1

Element(tag, attrs, parent) ==
    [kind |-> "element", tag |-> tag, attrs |-> attrs, kids |-> <<>>,
     parent |-> parent, data |-> <<>>]

TextNode(data, parent) ==
    [kind |-> "text", tag |-> <<>>, attrs |-> <<>>, kids |-> <<>>,
     parent |-> parent, data |-> data]

EmptyDocument == [nodes |-> <<>>, root |-> DocumentNode]

\* Element.getAttribute, with NoAttr for null
NoAttr == <<"null">>

AttrIndex(attrs, name) ==
    LET hits == {i \in 1..Len(attrs) : attrs[i][1] = name}
    IN  IF hits = {} THEN 0 ELSE Min(hits)

GetAttr(attrs, name) ==
    IF AttrIndex(attrs, name) = 0 THEN NoAttr ELSE attrs[AttrIndex(attrs, name)][2]

\* Element.setAttribute: an existing attribute keeps its place, a new one is
\* appended
SetAttr(attrs, name, value) ==
    IF AttrIndex(attrs, name) = 0 THEN Append(attrs, <<name, value>>)
    ELSE [attrs EXCEPT ![AttrIndex(attrs, name)] = <<name, value>>]

\* Element.removeAttribute
RemoveAttr(attrs, name) == SelectSeq(attrs, LAMBDA a : a[1] # name)

\* the elements of the tree below (and including) node n, in document order
RECURSIVE Descendants(_, _)
RECURSIVE DescendantsOfAll(_, _)
Descendants(nodes, n) ==
    IF nodes[n].kind = "element" THEN <<n>> \o DescendantsOfAll(nodes, nodes[n].kids)
    ELSE <<>>
DescendantsOfAll(nodes, ks) ==
    IF ks = <<>> THEN <<>>
    ELSE Descendants(nodes, Head(ks)) \o DescendantsOfAll(nodes, Tail(ks))

\* every element of the document, in document order
Elements(doc) ==
    IF doc.root = DocumentNode THEN <<>> ELSE Descendants(doc.nodes, doc.root)

\* the proper ancestors of node n inside the tree
RECURSIVE Ancestors(_, _)
Ancestors(nodes, n) ==
    IF nodes[n].parent \in {DocumentNode, Detached} THEN {}
    ELSE {nodes[n].parent} \cup Ancestors(nodes, nodes[n].parent)

\* Node.textContent of an element
RECURSIVE TextContent(_, _)
RECURSIVE TextContentOfAll(_, _)
TextContent(nodes, n) ==
    IF nodes[n].kind = "text" THEN nodes[n].data
    ELSE TextContentOfAll(nodes, nodes[n].kids)
TextContentOfAll(nodes, ks) ==
    IF ks = <<>> THEN <<>>
    ELSE TextContent(nodes, Head(ks)) \o TextContentOfAll(nodes, Tail(ks))

\* Element.children: the child nodes that are elements
Children(nodes, n) == SelectSeq(nodes[n].kids, LAMBDA k : nodes[k].kind = "element")

\* ChildNode.remove
RemoveNode(doc, n) ==
    LET p == doc.nodes[n].parent
    IN  IF p = Detached THEN doc
        ELSE IF p = DocumentNode
        THEN [nodes |-> [doc.nodes EXCEPT ![n].parent = Detached], root |-> DocumentNode]
        ELSE [doc EXCEPT !.nodes =
                 [doc.nodes EXCEPT ![n].parent = Detached,
                                   ![p].kids = SelectSeq(@, LAMBDA k : k # n)]]

(***************************************************************************)
(* new JSDOM(text, {contentType: "image/svg+xml"}): the XML parser, for    *)
(* documents of elements, double-quoted attributes and text.  A text that  *)
(* is not well formed makes the constructor throw (ok = FALSE).  Node      *)
(* identifiers are handed out in document order.                           *)
(***************************************************************************)
\* attribute-value normalization of the XML parser: a literal tab or line
\* break of the value is a space
NormalizedValue(v) ==
    [i \in 1..Len(v) |-> IF v[i] \in {"\n", "\t", "\r"} THEN " " ELSE v[i]]

\* the attributes of a start tag from position p on: ok tells whether they are
\* well formed, pos is the position of the "/" or ">" that ends them
RECURSIVE ParseAttrs(_, _, _)
ParseAttrs(t, p, acc) ==
    LET nonsp == {i \in p..Len(t) : ~IsSpace(t[i])}
        q == Min(nonsp)
        e == IndexOf(t, "=", q)
        close == IF e = 0 THEN 0 ELSE IndexOf(t, "\"", e + 2)
    IN  IF nonsp = {} THEN [ok |-> FALSE, attrs |-> acc, pos |-> 0]
        ELSE IF t[q] \in {"/", ">"} THEN [ok |-> TRUE, attrs |-> acc, pos |-> q]
        ELSE IF \/ e = 0
                \/ e = q
                \/ ~MatchAt(t, e + 1, <<"\"">>)
                \/ close = 0
                \/ AttrIndex(acc, SubSeq(t, q, e - 1)) # 0
        THEN [ok |-> FALSE, attrs |-> acc, pos |-> 0]
        ELSE ParseAttrs(t, close + 1,
                 Append(acc, <<SubSeq(t, q, e - 1),
                               NormalizedValue(SubSeq(t, e + 2, close - 1))>>))

\* a node is appended to the tree under the innermost open element
AddNode(st, node) ==
    LET id == Len(st.nodes) + 1
        added == Append(st.nodes, node)
    IN  IF st.open = <<>>
        THEN [st EXCEPT !.nodes = added, !.top = Append(@, id)]
        ELSE [st EXCEPT !.nodes = [added EXCEPT ![Head(st.open)].kids = Append(@, id)]]

Innermost(st) == IF st.open = <<>> THEN DocumentNode ELSE Head(st.open)

\* t[st.pos] = "<" opens a start tag with the attributes as
StartTag(t, st, tagEnd, as) ==
    LET withEl == AddNode(st, Element(SubSeq(t, st.pos + 1, tagEnd - 1), as.attrs,
                                      Innermost(st)))
    IN  IF ~as.ok THEN [st EXCEPT !.ok = FALSE]
        ELSE IF MatchAt(t, as.pos, Chars("/>"))
        THEN [withEl EXCEPT !.pos = as.pos + 2]
        ELSE [withEl EXCEPT !.pos = as.pos + 1, !.open = <<Len(withEl.nodes)>> \o @]

\* one construct of the text at st.pos: an end tag, a start tag or text
ParseStep(t, st) ==
    LET p == st.pos
        tagEnds == {i \in (p + 1)..Len(t) : IsSpace(t[i]) \/ t[i] \in {"/", ">"}}
        lt == IndexOf(t, "<", p)
        textEnd == IF lt = 0 THEN Len(t) + 1 ELSE lt
        closeTag == Chars("</") \o st.nodes[Head(st.open)].tag \o Chars(">")
    IN  IF MatchAt(t, p, Chars("</"))
        THEN IF st.open # <<>> /\ MatchAt(t, p, closeTag)
             THEN [st EXCEPT !.pos = p + Len(closeTag), !.open = Tail(@)]
             ELSE [st EXCEPT !.ok = FALSE]
        ELSE IF t[p] = "<"
        THEN IF tagEnds = {} \/ (p + 1) \in tagEnds THEN [st EXCEPT !.ok = FALSE]
             ELSE StartTag(t, st, Min(tagEnds), ParseAttrs(t, Min(tagEnds), <<>>))
        ELSE [AddNode(st, TextNode(SubSeq(t, p, textEnd - 1), Innermost(st)))
                 EXCEPT !.pos = textEnd]

RECURSIVE ParseFrom(_, _)
ParseFrom(t, st) ==
    IF ~st.ok \/ st.pos > Len(t) THEN st
    ELSE ParseFrom(t, ParseStep(t, st))

JSDOM(text) ==
    LET c == ParseFrom(text, [ok |-> TRUE, pos |-> 1, nodes |-> <<>>, open |-> <<>>,
                              top |-> <<>>])
        els == SelectSeq(c.top, LAMBDA k : c.nodes[k].kind = "element")
    IN  IF /\ c.ok
           /\ c.open = <<>>
           /\ Len(els) = 1
           /\ \A i \in 1..Len(c.top) :
                 c.nodes[c.top[i]].kind = "text" => Trim(c.nodes[c.top[i]].data) = <<>>
        THEN [ok |-> TRUE, doc |-> [nodes |-> c.nodes, root |-> els[1]]]
        ELSE [ok |-> FALSE, doc |-> EmptyDocument]

(***************************************************************************)
(* dom.serialize(): the XML serialization of the tree.  The texts of the   *)
(* model hold no character that needs escaping.                            *)
(***************************************************************************)
RECURSIVE SerializeAttrs(_)
SerializeAttrs(attrs) ==
    IF attrs = <<>> THEN <<>>
    ELSE <<" ">> \o attrs[1][1] \o Chars("=\"") \o attrs[1][2] \o <<"\"">>
         \o SerializeAttrs(Tail(attrs))

RECURSIVE SerializeNode(_, _)
RECURSIVE SerializeAll(_, _)
SerializeNode(nodes, n) ==
    IF nodes[n].kind = "text" THEN nodes[n].data
    ELSE <<"<">> \o nodes[n].tag \o SerializeAttrs(nodes[n].attrs)
         \o (IF nodes[n].kids = <<>> THEN Chars("/>")
             ELSE <<">">> \o SerializeAll(nodes, nodes[n].kids)
                  \o Chars("</") \o nodes[n].tag \o <<">">>)
SerializeAll(nodes, ks) ==
    IF ks = <<>> THEN <<>>
    ELSE SerializeNode(nodes, Head(ks)) \o SerializeAll(nodes, Tail(ks))

serialize(doc) ==
    IF doc.root = DocumentNode THEN <<>> ELSE SerializeNode(doc.nodes, doc.root)

(***************************************************************************)
(* Lines 19-24: svgContent.replace(/data-name="([^"]+)"/g, ...)            *)
(***************************************************************************)
\* p1.replace(/\s+/g, "_")
RECURSIVE ReplaceSpaceRuns(_)
ReplaceSpaceRuns(s) ==
    IF s = <<>> THEN <<>>
    ELSE IF IsSpace(Head(s))
    THEN LET rest == {i \in 1..Len(s) : ~IsSpace(s[i])}
         IN  <<"_">> \o (IF rest = {} THEN <<>> ELSE ReplaceSpaceRuns(From(s, Min(rest))))
    ELSE <<Head(s)>> \o ReplaceSpaceRuns(Tail(s))

RECURSIVE sanitizedContent(_)
sanitizedContent(t) ==
    LET lit == Chars("data-name=\"")
        i == Find(t, lit, 1)
        v == i + Len(lit)
        j == IndexOf(t, "\"", v)
    IN  IF i = 0 \/ j = 0 THEN t
        ELSE IF j = v THEN SubSeq(t, 1, i) \o sanitizedContent(From(t, i + 1))
        ELSE SubSeq(t, 1, v - 1) \o ReplaceSpaceRuns(SubSeq(t, v, j - 1)) \o <<"\"">>
             \o sanitizedContent(From(t, j + 1))

(***************************************************************************)
(* Selectors                                                               *)
(***************************************************************************)
\* the first element of seq that satisfies nothing else than being there: 0
\* stands for null
FirstOf(seq) == IF seq = <<>> THEN 0 ELSE Head(seq)

\* the ordered token set of a class attribute (Element.classList)
RECURSIVE Dedup(_)
Dedup(seq) ==
    IF seq = <<>> THEN <<>>
    ELSE LET init == Dedup(SubSeq(seq, 1, Len(seq) - 1))
             last == seq[Len(seq)]
         IN  IF last \in Range(init) THEN init ELSE Append(init, last)

classList(attrs) ==
    IF GetAttr(attrs, Chars("class")) = NoAttr THEN <<>>
    ELSE Dedup(SelectSeq(SplitSpaces(GetAttr(attrs, Chars("class"))),
                         LAMBDA c : c # <<>>))

\* document.querySelectorAll(tagName): a static list, in document order
querySelectorAllTag(doc, tagName) ==
    SelectSeq(Elements(doc), LAMBDA n : doc.nodes[n].tag = tagName)

\* document.querySelectorAll("." + className): a static list, in document order
querySelectorAllClass(doc, className) ==
    SelectSeq(Elements(doc), LAMBDA n : className \in Range(classList(doc.nodes[n].attrs)))

\* document.querySelector("defs style") (line 31)
querySelectorDefsStyle(doc) ==
    FirstOf(SelectSeq(Elements(doc),
        LAMBDA n : /\ doc.nodes[n].tag = Chars("style")
                   /\ \E a \in Ancestors(doc.nodes, n) : doc.nodes[a].tag = Chars("defs")))

\* document.querySelector("defs") (line 86)
querySelectorDefs(doc) == FirstOf(querySelectorAllTag(doc, Chars("defs")))

(***************************************************************************)
(* Lines 47-54 and 125-131: the matches of /\.([^{]+){([^}]+)}/g, each as  *)
(* <<match[1], match[2]>>, left to right.                                  *)
(***************************************************************************)
\* the position of the closing brace of a match that starts at i, 0 if the
\* regular expression does not match there
RuleEnd(t, i) ==
    IF t[i] # "." THEN 0
    ELSE LET open == IndexOf(t, "{", i + 1)
             close == IF open = 0 THEN 0 ELSE IndexOf(t, "}", open + 1)
         IN  IF open = 0 \/ open = i + 1 \/ close = 0 \/ close = open + 1 THEN 0
             ELSE close

RECURSIVE styleRegexExec(_)
styleRegexExec(t) ==
    LET starts == {i \in 1..Len(t) : RuleEnd(t, i) # 0}
    IN  IF starts = {} THEN <<>>
        ELSE LET i == Min(starts)
                 open == IndexOf(t, "{", i + 1)
                 close == RuleEnd(t, i)
             IN  <<<<SubSeq(t, i + 1, open - 1), SubSeq(t, open + 1, close - 1)>>>>
                 \o styleRegexExec(From(t, close + 1))

\* lines 44-54: classStyles[className] = styleDeclaration, as the list of the
\* object's <<key, value>> entries in Object.keys order.  Assigning to a key
\* the object already has replaces its value and keeps its place.
RECURSIVE classStylesOf(_)
classStylesOf(matches) ==
    IF matches = <<>> THEN <<>>
    ELSE LET init == classStylesOf(SubSeq(matches, 1, Len(matches) - 1))
             className == Trim(matches[Len(matches)][1])
             styleDeclaration == Trim(matches[Len(matches)][2])
         IN  SetAttr(init, className, styleDeclaration)

(***************************************************************************)
(* Lines 63-72: the declarations of a rule, applied to element.style       *)
(***************************************************************************)
\* lines 63-66
styleProps(styleDeclaration) ==
    SelectSeq([i \in 1..Len(Split(styleDeclaration, ";")) |->
                  Trim(Split(styleDeclaration, ";")[i])],
              LAMBDA prop : Len(prop) > 0)

\* undefined, as the value of a destructured array element that is not there
Undefined == <<"undefined">>

\* lines 70 and 138: const [name, value] = prop.split(":").map(trim)
nameValue(prop) ==
    LET parts == Split(prop, ":")
    IN  <<Trim(parts[1]), IF Len(parts) >= 2 THEN Trim(parts[2]) ELSE Undefined>>

\* the declarations of a style attribute as the CSS parser reads them: each
\* declaration is split at its first colon
RECURSIVE CssParse(_)
CssParse(props) ==
    IF props = <<>> THEN <<>>
    ELSE LET colon == IndexOf(Head(props), ":", 1)
         IN  (IF colon = 0 THEN <<>>
              ELSE <<<<Trim(SubSeq(Head(props), 1, colon - 1)),
                       Trim(From(Head(props), colon + 1))>>>>)
             \o CssParse(Tail(props))

\* element.style, read from the style attribute
inlineStyleOf(attrs) ==
    IF GetAttr(attrs, Chars("style")) = NoAttr THEN <<>>
    ELSE CssParse(styleProps(GetAttr(attrs, Chars("style"))))

\* CSSStyleDeclaration.cssText
RECURSIVE cssText(_)
cssText(decls) ==
    IF decls = <<>> THEN <<>>
    ELSE decls[1][1] \o Chars(": ") \o decls[1][2] \o <<";">>
         \o (IF Len(decls) = 1 THEN <<>> ELSE <<" ">> \o cssText(Tail(decls)))

\* line 71: element.style[name] = value.  The property names of the model are
\* CSS properties the style object knows; an empty or undefined value removes
\* the property.  The style attribute follows the style object.
setStyle(attrs, name, value) ==
    LET old == inlineStyleOf(attrs)
        new == IF value \in {Undefined, <<>>} THEN RemoveAttr(old, name)
               ELSE SetAttr(old, name, value)
    IN  IF new = old /\ GetAttr(attrs, Chars("style")) = NoAttr THEN attrs
        ELSE SetAttr(attrs, Chars("style"), cssText(new))

\* lines 69-72
RECURSIVE applyProps(_, _)
applyProps(attrs, props) ==
    IF props = <<>> THEN attrs
    ELSE applyProps(setStyle(attrs, nameValue(Head(props))[1], nameValue(Head(props))[2]),
                    Tail(props))

\* lines 75-78: classList.remove(className), then removeAttribute("class") when
\* the list is empty
removeClass(attrs, className) ==
    LET left == SelectSeq(classList(attrs), LAMBDA c : c # className)
    IN  IF left = <<>> THEN RemoveAttr(attrs, Chars("class"))
        ELSE SetAttr(attrs, Chars("class"), Join(left, <<" ">>))

\* lines 61-79: the body of elements.forEach
applyToElement(attrs, className, styleDeclaration) ==
    removeClass(applyProps(attrs, styleProps(styleDeclaration)), className)

RECURSIVE applyToElements(_, _, _, _)
applyToElements(doc, elements, className, styleDeclaration) ==
    IF elements = <<>> THEN doc
    ELSE applyToElements(
             [doc EXCEPT !.nodes[Head(elements)].attrs =
                 applyToElement(@, className, styleDeclaration)],
             Tail(elements), className, styleDeclaration)

\* lines 57-80: Object.keys(classStyles).forEach
RECURSIVE applyClassStyles(_, _)
applyClassStyles(doc, classStyles) ==
    IF classStyles = <<>> THEN doc
    ELSE applyClassStyles(
             applyToElements(doc, querySelectorAllClass(doc, classStyles[1][1]),
                             classStyles[1][1], classStyles[1][2]),
             Tail(classStyles))

\* lines 83-89: styleElement.remove(), then the first defs of the document is
\* removed if it has no child element
removeStyleAndDefs(doc, styleElement) ==
    LET noStyle == RemoveNode(doc, styleElement)
        defsElement == querySelectorDefs(noStyle)
    IN  IF defsElement # 0 /\ Len(Children(noStyle.nodes, defsElement)) = 0
        THEN RemoveNode(noStyle, defsElement)
        ELSE noStyle

(***************************************************************************)
(* Lines 282-307 (and 174-199, 224-249): the element names that are        *)
(* capitalized for React Native                                            *)
(***************************************************************************)
svgElements ==
    << Chars("svg"), Chars("circle"), Chars("ellipse"), Chars("g"), Chars("text"),
       Chars("tspan"), Chars("line"), Chars("path"), Chars("polygon"),
       Chars("polyline"), Chars("rect"), Chars("use"), Chars("defs"), Chars("stop"),
       Chars("linearGradient"), Chars("radialGradient"), Chars("mask"),
       Chars("pattern"), Chars("clipPath"), Chars("filter"), Chars("feGaussianBlur"),
       Chars("feOffset"), Chars("feBlend"), Chars("feColorMatrix") >>

Lower == Chars("abcdefghijklmnopqrstuvwxyz")
Upper == Chars("ABCDEFGHIJKLMNOPQRSTUVWXYZ")

\* String.prototype.toUpperCase, of one character
toUpperCase(c) ==
    IF \E i \in 1..Len(Lower) : Lower[i] = c
    THEN Upper[CHOOSE i \in 1..Len(Lower) : Lower[i] = c]
    ELSE c

\* lines 315-316 (and 202, 252): el.charAt(0).toUpperCase() + el.slice(1)
capitalizedName(elementName) ==
    IF elementName = <<>> THEN <<>>
    ELSE <<toUpperCase(Head(elementName))>> \o Tail(elementName)

(***************************************************************************)
(* Lines 280-333: convertToReactNativeSvg(document)                        *)
(***************************************************************************)
\* a copy that leaves the last attribute behind: C10 does not hold of it
copyAllButLast(target, attributes) ==
    IF attributes = <<>> THEN target
    ELSE target \o SubSeq(attributes, 1, Len(attributes) - 1)

\* lines 320-322: newElement.setAttribute(attr.name, attr.value) for each
\* attribute of the element
RECURSIVE copyAttributes(_, _)
copyAttributes(target, attributes) ==
    IF attributes = <<>> THEN target
    ELSE copyAttributes(SetAttr(target, attributes[1][1], attributes[1][2]),
                        Tail(attributes))

\* lines 325-327: while (element.firstChild) newElement.appendChild(element.firstChild)
RECURSIVE moveChildren(_, _, _)
moveChildren(nodes, element, newElement) ==
    IF nodes[element].kids = <<>> THEN nodes
    ELSE LET firstChild == Head(nodes[element].kids)
         IN  moveChildren([nodes EXCEPT ![element].kids = Tail(@),
                                        ![newElement].kids = Append(@, firstChild),
                                        ![firstChild].parent = newElement],
                          element, newElement)

\* a replacement that puts the new element after its siblings: C2 does not
\* hold of it
replaceAtEnd(doc, newElement, element) ==
    LET parentNode == doc.nodes[element].parent
    IN  IF parentNode = DocumentNode
        THEN [nodes |-> [doc.nodes EXCEPT ![newElement].parent = DocumentNode,
                                          ![element].parent = Detached],
              root |-> newElement]
        ELSE [doc EXCEPT !.nodes =
                 [doc.nodes EXCEPT
                     ![parentNode].kids =
                         Append(SelectSeq(@, LAMBDA k : k # element), newElement),
                     ![newElement].parent = parentNode,
                     ![element].parent = Detached]]

\* line 330: element.parentNode.replaceChild(newElement, element)
replaceChild(doc, newElement, element) ==
    LET parentNode == doc.nodes[element].parent
    IN  IF parentNode = DocumentNode
        THEN [nodes |-> [doc.nodes EXCEPT ![newElement].parent = DocumentNode,
                                          ![element].parent = Detached],
              root |-> newElement]
        ELSE [doc EXCEPT !.nodes =
                 [doc.nodes EXCEPT
                     ![parentNode].kids = [i \in 1..Len(@) |->
                                              IF @[i] = element THEN newElement ELSE @[i]],
                     ![newElement].parent = parentNode,
                     ![element].parent = Detached]]

\* lines 313-331: the body of elements.forEach.  r.threw records a TypeError:
\* replaceChild on the null parentNode of an element that is in no tree.
renameElement(r, element, elementName) ==
    IF r.threw \/ r.doc.nodes[element].parent = Detached
    THEN [r EXCEPT !.threw = TRUE]
    ELSE LET newElement == Len(r.doc.nodes) + 1
             created == Append(r.doc.nodes,
                               Element(capitalizedName(elementName), <<>>, Detached))
             copied == [created EXCEPT ![newElement].attrs =
                           copyAttributes(@, created[element].attrs)]
             moved == moveChildren(copied, element, newElement)
         IN  [r EXCEPT !.doc = replaceChild([r.doc EXCEPT !.nodes = moved],
                                            newElement, element)]

\* a loop over a live list, which loses the element after each one it
\* replaces: C3 does not hold of it
RECURSIVE renameEveryOther(_, _, _)
renameEveryOther(r, elements, elementName) ==
    IF elements = <<>> THEN r
    ELSE LET next == renameElement(r, Head(elements), elementName)
         IN  IF next.threw \/ Len(elements) = 1 THEN next
             ELSE renameEveryOther(next, Tail(Tail(elements)), elementName)

\* a TypeError ends both loops
RECURSIVE renameElements(_, _, _)
renameElements(r, elements, elementName) ==
    IF elements = <<>> THEN r
    ELSE LET next == renameElement(r, Head(elements), elementName)
         IN  IF next.threw THEN next
             ELSE renameElements(next, Tail(elements), elementName)

\* lines 310-332: svgElements.forEach
RECURSIVE renameEach(_, _)
renameEach(r, names) ==
    IF names = <<>> THEN r
    ELSE LET next == renameElements(r, querySelectorAllTag(r.doc, Head(names)),
                                    Head(names))
         IN  IF next.threw THEN next
             ELSE renameEach(next, Tail(names))

convertToReactNativeSvg(doc) == renameEach([doc |-> doc, threw |-> FALSE], svgElements)

(***************************************************************************)
(* Lines 112-269: the fallback, on the text of the file                    *)
(***************************************************************************)
\* lines 120-121: /<style>\s*([\s\S]*?)\s*<\/style>/g.exec(svgContent); found
\* tells whether it matched, content is styleMatch[1]
styleMatch(svgContent) ==
    LET open == Find(svgContent, Chars("<style>"), 1)
        close == IF open = 0 THEN 0
                 ELSE Find(svgContent, Chars("</style>"), open + Len(Chars("<style>")))
    IN  IF close = 0 THEN [found |-> FALSE, content |-> <<>>]
        ELSE [found |-> TRUE,
              content |-> Trim(SubSeq(svgContent, open + Len(Chars("<style>")), close - 1))]

\* lines 134-141
inlineStyle(styleDeclaration) ==
    LET props == SelectSeq(Split(styleDeclaration, ";"), LAMBDA prop : Len(Trim(prop)) > 0)
    IN  Join([i \in 1..Len(props) |->
                 nameValue(props[i])[1] \o <<":">> \o nameValue(props[i])[2]],
             <<";">>)

\* \b at the gap before position k of s, where s lies between two quotes
IsWordAt(s, k) == k >= 1 /\ k <= Len(s) /\ IsWord(s[k])
Boundary(s, k) == IsWordAt(s, k - 1) # IsWordAt(s, k)

\* [^"]*\bclassName\b[^"]* matches the whole of value, the text between the
\* quotes of a class attribute.  A class name of the model holds no character
\* that is special in a regular expression.
classRegexMatches(value, className) ==
    \E p \in 1..(Len(value) + 1) :
        /\ MatchAt(value, p, className) \/ className = <<>>
        /\ Boundary(value, p)
        /\ Boundary(value, p + Len(className))

\* lines 150-162: the replacement of one matched class attribute
styleAttr(value, className, inlineStyleText) ==
    LET existingClasses == SplitSpaces(value)
        filteredClasses == Join(SelectSeq(existingClasses, LAMBDA c : c # className),
                                <<" ">>)
    IN  IF filteredClasses # <<>>
        THEN Chars("class=\"") \o filteredClasses \o Chars("\" style=\"")
             \o inlineStyleText \o <<"\"">>
        ELSE Chars("style=\"") \o inlineStyleText \o <<"\"">>

\* lines 144-163: modifiedSvg.replace(classRegexInSvg, ...), every match
RECURSIVE replaceClassAttrs(_, _, _)
replaceClassAttrs(t, className, inlineStyleText) ==
    LET lit == Chars("class=\"")
        i == Find(t, lit, 1)
        v == i + Len(lit)
        q == IndexOf(t, "\"", v)
    IN  IF i = 0 \/ q = 0 THEN t
        ELSE IF classRegexMatches(SubSeq(t, v, q - 1), className)
        THEN SubSeq(t, 1, i - 1)
             \o styleAttr(SubSeq(t, v, q - 1), className, inlineStyleText)
             \o replaceClassAttrs(From(t, q + 1), className, inlineStyleText)
        ELSE SubSeq(t, 1, i) \o replaceClassAttrs(From(t, i + 1), className, inlineStyleText)

\* lines 129-164: one pass over the text for each match of classRegex
RECURSIVE classPasses(_, _)
classPasses(modifiedSvg, matches) ==
    IF matches = <<>> THEN modifiedSvg
    ELSE LET className == Trim(matches[1][1])
             styleDeclaration == Trim(matches[1][2])
             next == replaceClassAttrs(modifiedSvg, className, inlineStyle(styleDeclaration))
         \* (an empty text stays empty in every further pass)
         IN  IF next = <<>> THEN next ELSE classPasses(next, Tail(matches))

\* line 167: modifiedSvg.replace(/<style>[\s\S]*?<\/style>/g, "")
RECURSIVE removeStyleBlocks(_)
removeStyleBlocks(t) ==
    LET open == Find(t, Chars("<style>"), 1)
        close == IF open = 0 THEN 0
                 ELSE Find(t, Chars("</style>"), open + Len(Chars("<style>")))
    IN  IF close = 0 THEN t
        ELSE SubSeq(t, 1, open - 1)
             \o removeStyleBlocks(From(t, close + Len(Chars("</style>"))))

\* line 170: modifiedSvg.replace(/<defs>\s*<\/defs>/g, "")
RECURSIVE removeEmptyDefs(_)
removeEmptyDefs(t) ==
    LET open == Find(t, Chars("<defs>"), 1)
        after == open + Len(Chars("<defs>"))
        nonsp == {k \in after..Len(t) : ~IsSpace(t[k])}
        close == IF nonsp = {} THEN 0 ELSE Min(nonsp)
    IN  IF open = 0 THEN t
        ELSE IF MatchAt(t, close, Chars("</defs>"))
        THEN SubSeq(t, 1, open - 1) \o removeEmptyDefs(From(t, close + Len(Chars("</defs>"))))
        ELSE SubSeq(t, 1, open) \o removeEmptyDefs(From(t, open + 1))

\* lines 203 and 207: replace(new RegExp(`<${el}(\\s|>)`, "g"), `<${capitalizedName}$1`)
RECURSIVE replaceOpenTags(_, _)
replaceOpenTags(t, el) ==
    LET lit == <<"<">> \o el
        hits == {i \in 1..Len(t) : /\ MatchAt(t, i, lit)
                                  /\ i + Len(lit) <= Len(t)
                                  /\ (IsSpace(t[i + Len(lit)]) \/ t[i + Len(lit)] = ">")}
    IN  IF hits = {} THEN t
        ELSE SubSeq(t, 1, Min(hits) - 1) \o <<"<">> \o capitalizedName(el)
             \o <<t[Min(hits) + Len(lit)]>>
             \o replaceOpenTags(From(t, Min(hits) + Len(lit) + 1), el)

\* lines 204 and 208: replace(new RegExp(`</${el}>`, "g"), `</${capitalizedName}>`)
RECURSIVE replaceCloseTags(_, _)
replaceCloseTags(t, el) ==
    LET lit == Chars("</") \o el \o <<">">>
        i == Find(t, lit, 1)
    IN  IF i = 0 THEN t
        ELSE SubSeq(t, 1, i - 1) \o Chars("</") \o capitalizedName(el) \o <<">">>
             \o replaceCloseTags(From(t, i + Len(lit)), el)

\* lines 201-209 (and 251-259): svgElements.forEach
RECURSIVE renameTags(_, _)
renameTags(t, names) ==
    IF names = <<>> THEN t
    ELSE LET next == replaceCloseTags(replaceOpenTags(t, Head(names)), Head(names))
         \* (an empty text stays empty under every further name)
         IN  IF next = <<>> THEN next ELSE renameTags(next, Tail(names))

\* lines 117-269: the text the fallback writes to the output file
fallbackOutput(svgContent, rn) ==
    IF styleMatch(svgContent).found /\ styleMatch(svgContent).content # <<>>
    THEN LET inlined == classPasses(svgContent, styleRegexExec(styleMatch(svgContent).content))
             pruned == removeEmptyDefs(removeStyleBlocks(inlined))
         IN  IF rn THEN renameTags(pruned, svgElements) ELSE pruned
    ELSE IF rn THEN renameTags(svgContent, svgElements)
    ELSE svgContent

(***************************************************************************)
(* The files the model runs on                                             *)
(***************************************************************************)
\* the most rules a style text of the model holds
MaxRules == 2
\* the deepest nesting of g elements in a document of the model
MaxDepth == 2

Rules ==
    { Chars(".a{f:r;s:t}"), Chars(".a{o:1;f:g}"), Chars(".a{s:u:v;}"),
      Chars(" .b { f : g } ") }

RECURSIVE RuleLists(_)
RuleLists(n) ==
    IF n = 0 THEN {<<>>}
    ELSE {Append(l, r) : l \in RuleLists(n - 1), r \in Rules}

StyleTexts ==
    {Join(l, <<>>) : l \in UNION {RuleLists(n) : n \in 1..MaxRules}}

Svg(content) == Chars("<svg>") \o content \o Chars("</svg>")

StyleInDefs(styleText) ==
    Chars("<defs><style>") \o styleText \o Chars("</style></defs>")

\* elements that use the classes of the rules
Bodies ==
    { Chars("<path class=\"a\" d=\"M\"/>"),
      Chars("<path class=\"a b\" d=\"M\"/>"),
      Chars("<path id=\"p\" class=\"b c\"/><rect class=\"a\" style=\"s:q\"/>"),
      Chars("<g class=\"b\"><rect class=\"a\"/></g>"),
      Chars("<path class=\"a-b\"/><rect class=\"x\"/>") }

StyledFiles == {Svg(StyleInDefs(st) \o b) : st \in StyleTexts, b \in Bodies}

\* the places a style element is found in, and what is around it
DefsFiles ==
    LET style == Chars("<style>.a{f:r}</style>")
        use == Chars("<path class=\"a\"/>")
    IN  { Svg(Chars("<defs>") \o style \o Chars("<mask id=\"m\"/></defs>") \o use),
          Svg(Chars("<defs/><defs>") \o style \o Chars("</defs>") \o use),
          Svg(Chars("<defs><mask/></defs><defs>") \o style \o Chars("</defs>") \o use),
          Svg(Chars("<defs>\n") \o style \o Chars("\n</defs>") \o use),
          Svg(Chars("<defs><g>") \o style \o Chars("</g></defs>") \o use),
          Svg(style \o use),
          Svg(Chars("<defs><mask/></defs>") \o use),
          Svg(Chars("<defs><style> </style></defs>") \o use) }

\* g elements nested n deep around content
RECURSIVE Nested(_, _)
Nested(n, content) ==
    IF n = 0 THEN content
    ELSE Chars("<g id=\"n\">") \o Nested(n - 1, content) \o Chars("</g>")

\* documents without a style element: tags inside and outside the list of
\* element names, at every depth
PlainFiles ==
    { Svg(Nested(n, c)) :
        n \in 0..MaxDepth,
        c \in { Chars("<path d=\"M0 0\"/>"),
                Chars("<title>t</title><Path x=\"1\" y=\"2\"/>"),
                Chars("<a><rect/>x<circle r=\"1\"></circle></a>"),
                Chars("<linearGradient id=\"l\"><stop/></linearGradient><glyph/>") } }

\* attributes the sanitizing of lines 19-24 looks at
NamedFiles ==
    { Svg(StyleInDefs(Chars(".a{f:r}")) \o Chars("<g ") \o a \o Chars(" class=\"a\"/>")) :
        a \in { Chars("data-name=\"Layer 1\""),
                Chars("data-name=\"L\" id=\"a b\""),
                Chars("data-name=\"a \n b\" x=\"1\"") } }

\* texts the XML parser rejects
MalformedFiles ==
    { Svg(StyleInDefs(Chars(".a{f:r}")) \o Chars("<path class=\"a\">")),
      Svg(StyleInDefs(Chars(".a{f:r}.b{s:t}")) \o Chars("<path class=\"a b\" class=\"b\"/>")),
      Svg(Chars("<g data-name=\"a b\"></path>")) }

InputFiles == StyledFiles \cup DefsFiles \cup PlainFiles \cup NamedFiles \cup MalformedFiles

(***************************************************************************)
(* convertSvgStylesToInline(inputPath, outputPath, reactNative), lines     *)
(* 13-274, one run.  inputPath and outputPath name different files.        *)
(***************************************************************************)
VARIABLES
    inputFile,      \* the content of the file at inputPath
    outputFile,     \* the content of the file at outputPath, NoFile if there is none
    reactNative,    \* the third argument
    pc,             \* the statement the run is at
    document,       \* dom.window.document
    styleElement,   \* line 31, 0 for null
    classStyles,    \* line 44
    error           \* the exception caught at line 108: the stage that threw

vars == <<inputFile, outputFile, reactNative, pc, document, styleElement, classStyles, error>>

NoFile == <<"ENOENT">>

\* the stages of the try block an exception can come from
Stages == {"query", "extract", "apply", "prune", "rename", "write", "log"}

Init ==
    /\ inputFile \in InputFiles
    /\ reactNative \in BOOLEAN
    /\ outputFile = NoFile
    /\ pc = "load"
    /\ document = EmptyDocument
    /\ styleElement = 0
    /\ classStyles = <<>>
    /\ error = "none"

\* line 108: the catch block is entered; the bindings of the try block are gone
catch(stage) ==
    /\ pc' = "catch"
    /\ error' = stage
    /\ document' = EmptyDocument
    /\ styleElement' = 0
    /\ classStyles' = <<>>

\* lines 16-28: read, sanitize, parse
Load ==
    /\ pc = "load"
    /\ LET dom == JSDOM(sanitizedContent(inputFile))
       IN  IF dom.ok
           THEN /\ document' = dom.doc
                /\ pc' = "query"
                /\ UNCHANGED <<styleElement, classStyles, error>>
           ELSE catch("load")
    /\ UNCHANGED <<inputFile, outputFile, reactNative>>

\* lines 31-39
QueryStyle ==
    /\ pc = "query"
    /\ styleElement' = querySelectorDefsStyle(document)
    /\ pc' = IF styleElement' # 0 THEN "extract"
             ELSE IF reactNative THEN "rename"
             ELSE "returned"
    /\ UNCHANGED <<inputFile, outputFile, reactNative, document, classStyles, error>>

\* lines 43-54
Extract ==
    /\ pc = "extract"
    /\ classStyles' = classStylesOf(styleRegexExec(TextContent(document.nodes, styleElement)))
    /\ pc' = "apply"
    /\ UNCHANGED <<inputFile, outputFile, reactNative, document, styleElement, error>>

\* lines 57-80
Apply ==
    /\ pc = "apply"
    /\ document' = applyClassStyles(document, classStyles)
    /\ pc' = "prune"
    /\ UNCHANGED <<inputFile, outputFile, reactNative, styleElement, classStyles, error>>

\* lines 83-89
Prune ==
    /\ pc = "prune"
    /\ document' = removeStyleAndDefs(document, styleElement)
    /\ pc' = "rename"
    /\ UNCHANGED <<inputFile, outputFile, reactNative, styleElement, classStyles, error>>

\* lines 93-95
Rename ==
    /\ pc = "rename"
    /\ IF ~reactNative
       THEN /\ pc' = "write"
            /\ UNCHANGED <<document, styleElement, classStyles, error>>
       ELSE LET r == convertToReactNativeSvg(document)
            IN  IF r.threw THEN catch("rename")
                ELSE /\ document' = r.doc
                     /\ pc' = "write"
                     /\ UNCHANGED <<styleElement, classStyles, error>>
    /\ UNCHANGED <<inputFile, outputFile, reactNative>>

\* lines 98-101
Write ==
    /\ pc = "write"
    /\ outputFile' = serialize(document)
    /\ pc' = "log"
    /\ UNCHANGED <<inputFile, reactNative, document, styleElement, classStyles, error>>

\* lines 103-107
Log ==
    /\ pc = "log"
    /\ pc' = "done"
    /\ UNCHANGED <<inputFile, outputFile, reactNative, document, styleElement, classStyles, error>>

\* a statement of the try block throws: the document has no style property
\* for an element, the file cannot be written, the console is closed
Throw ==
    /\ pc \in Stages
    /\ catch(pc)
    /\ UNCHANGED <<inputFile, outputFile, reactNative>>

\* a fallback that works on the text the try block sanitized: C6 does not
\* hold of it
fallbackOnSanitized(file) == sanitizedContent(file)

\* line 114: the fallback reads the file again
fallbackSvgContent(file) == file

\* lines 112-269
Fallback ==
    /\ pc = "catch"
    /\ outputFile' = fallbackOutput(fallbackSvgContent(inputFile), reactNative)
    /\ pc' = "fallbackDone"
    /\ UNCHANGED <<inputFile, reactNative, document, styleElement, classStyles, error>>

Next ==
    \/ Load
    \/ QueryStyle
    \/ Extract
    \/ Apply
    \/ Prune
    \/ Rename
    \/ Write
    \/ Log
    \/ Throw
    \/ Fallback

Spec == Init /\ [][Next]_vars

(***************************************************************************)
(* What the claims speak of                                                *)
(***************************************************************************)
\* the document the structured pipeline starts from
loaded == JSDOM(sanitizedContent(inputFile)).doc

\* the document of the input file as it is written
inputDocument == JSDOM(inputFile).doc

\* the style-inlining steps of the try block have run to their end
Inlined == pc = "rename" /\ styleElement # 0

\* the rules of the style text, left to right, as <<selector, body>>
rulesOf(doc, style) == styleRegexExec(TextContent(doc.nodes, style))

\* the (property, value) pairs a rule body declares: each fragment between
\* semicolons, split at its first colon, both sides trimmed
declared(body) == CssParse(styleProps(Trim(body)))

\* element n carries class c in document doc
carries(doc, n, c) == c \in Range(classList(doc.nodes[n].attrs))

hasPair(decls, pair) == \E i \in 1..Len(decls) : decls[i] = pair

hasProperty(decls, name) == \E i \in 1..Len(decls) : decls[i][1] = name

\* a declaration of property name for a class of element n that comes after
\* declaration j of rule k
declaredLater(doc, rules, n, k, j, name) ==
    \E k2 \in 1..Len(rules) : \E j2 \in 1..Len(declared(rules[k2][2])) :
        /\ k2 > k \/ (k2 = k /\ j2 > j)
        /\ carries(doc, n, Trim(rules[k2][1]))
        /\ declared(rules[k2][2])[j2][1] = name

(***************************************************************************)
(* C1.  Style completeness of the structured pipeline: every pair declared *)
(* for a class is in the inline style of every element that carried the    *)
(* class, unless a later declaration of the same property for one of the   *)
(* element's classes overwrote it; no class attribute holds a declared     *)
(* class any more, and no class attribute is left empty.                   *)
(***************************************************************************)
C1_StyleCompleteness ==
    Inlined =>
        LET rules == rulesOf(loaded, styleElement)
            els == Range(Elements(loaded))
        IN  /\ \A k \in 1..Len(rules) : \A n \in els :
                   carries(loaded, n, Trim(rules[k][1])) =>
                       /\ \A j \in 1..Len(declared(rules[k][2])) :
                              \/ hasPair(inlineStyleOf(document.nodes[n].attrs),
                                         declared(rules[k][2])[j])
                              \/ declaredLater(loaded, rules, n, k, j,
                                               declared(rules[k][2])[j][1])
                       /\ ~carries(document, n, Trim(rules[k][1]))
            /\ \A n \in els :
                   GetAttr(document.nodes[n].attrs, Chars("class")) # NoAttr
                       => classList(document.nodes[n].attrs) # <<>>

(***************************************************************************)
(* C4.  Container cleanup: once the style element is removed, the defs     *)
(* that contained it is removed exactly when it has no child node left; a  *)
(* defs that is kept keeps its other children; no other defs is removed.   *)
(***************************************************************************)
\* the defs element that contains element n: its nearest defs ancestor
containingDefs(doc, n) ==
    LET up == {a \in Ancestors(doc.nodes, n) : doc.nodes[a].tag = Chars("defs")}
    IN  CHOOSE a \in up : \A b \in up : b <= a

inTree(doc, n) == n \in Range(Elements(doc))

C4_ContainerCleanup ==
    Inlined =>
        LET defs == containingDefs(loaded, styleElement)
            remaining == SelectSeq(loaded.nodes[defs].kids, LAMBDA k : k # styleElement)
        IN  /\ inTree(document, defs) <=> remaining # <<>>
            /\ inTree(document, defs) => document.nodes[defs].kids = remaining
            /\ \A n \in Range(Elements(loaded)) :
                   loaded.nodes[n].tag = Chars("defs") /\ n # defs => inTree(document, n)

(***************************************************************************)
(* C5.  A run on an input without a style element inside defs, renaming    *)
(* not requested, produces an output whose content is the input (so that a *)
(* second run on an output gives the same bytes again).                    *)
(***************************************************************************)
Finished == pc \in {"returned", "done", "fallbackDone"}

StyleFree(file) == JSDOM(file).ok /\ querySelectorDefsStyle(JSDOM(file).doc) = 0

C5_StyleFreeOutputIsInput ==
    Finished /\ ~reactNative /\ StyleFree(inputFile) => outputFile = inputFile

(***************************************************************************)
(* C7.  Two rules for one class are layered: an element that carries the   *)
(* class has in its inline style every pair of either rule, unless a later *)
(* declaration of the same property for one of its classes overwrote it.   *)
(* Values with a colon are left to C8.                                     *)
(***************************************************************************)
C7_DuplicateRulesLayered ==
    Inlined =>
        LET rules == rulesOf(loaded, styleElement)
        IN  \A k1, k2 \in 1..Len(rules) : \A n \in Range(Elements(loaded)) :
                /\ k1 < k2
                /\ Trim(rules[k1][1]) = Trim(rules[k2][1])
                /\ carries(loaded, n, Trim(rules[k1][1]))
                => \A k \in {k1, k2} : \A j \in 1..Len(declared(rules[k][2])) :
                       \/ IndexOf(declared(rules[k][2])[j][2], ":", 1) # 0
                       \/ hasPair(inlineStyleOf(document.nodes[n].attrs),
                                  declared(rules[k][2])[j])
                       \/ declaredLater(loaded, rules, n, k, j,
                                        declared(rules[k][2])[j][1])

(***************************************************************************)
(* C8.  A declaration is split at its first colon only: a value that holds *)
(* a colon reaches the inline style whole, in the structured pipeline (for *)
(* the declaration classStyles holds for a class) and in the fallback (for *)
(* the first rule of a class that some class attribute of the input uses). *)
(***************************************************************************)
hasColon(value) == IndexOf(value, ":", 1) # 0

\* a declaration of property name that the structured pipeline applies to
\* element n after declaration j of entry k of classStyles
appliedLater(doc, entries, n, k, j, name) ==
    \E k2 \in 1..Len(entries) : \E j2 \in 1..Len(declared(entries[k2][2])) :
        /\ k2 > k \/ (k2 = k /\ j2 > j)
        /\ carries(doc, n, entries[k2][1])
        /\ declared(entries[k2][2])[j2][1] = name

usesClass(text, className) == replaceClassAttrs(text, className, <<>>) # text

C8_ValueAfterFirstColon ==
    /\ Inlined =>
           \A k \in 1..Len(classStyles) : \A n \in Range(Elements(loaded)) :
               \A j \in 1..Len(declared(classStyles[k][2])) :
                   /\ carries(loaded, n, classStyles[k][1])
                   /\ hasColon(declared(classStyles[k][2])[j][2])
                   => \/ hasPair(inlineStyleOf(document.nodes[n].attrs),
                                 declared(classStyles[k][2])[j])
                      \/ appliedLater(loaded, classStyles, n, k, j,
                                      declared(classStyles[k][2])[j][1])
    /\ pc = "fallbackDone" /\ styleMatch(inputFile).content # <<>> =>
           LET rules == styleRegexExec(styleMatch(inputFile).content)
           IN  \A k \in 1..Len(rules) : \A j \in 1..Len(declared(rules[k][2])) :
                   /\ \A k0 \in 1..(k - 1) : Trim(rules[k0][1]) # Trim(rules[k][1])
                   /\ usesClass(inputFile, Trim(rules[k][1]))
                   /\ hasColon(declared(rules[k][2])[j][2])
                   => Find(outputFile, declared(rules[k][2])[j][1] \o <<":">>
                                       \o declared(rules[k][2])[j][2], 1) # 0

(***************************************************************************)
(* C9.  The fallback composes the styled classes of one element: an        *)
(* element whose class attribute lists two or more classes that have a     *)
(* rule comes out with a single style attribute, which holds the           *)
(* declarations of each of those classes.                                  *)
(***************************************************************************)
\* the start tags of a text, each from its "<" to its ">"
RECURSIVE StartTags(_)
StartTags(t) ==
    LET lt == IndexOf(t, "<", 1)
        gt == IndexOf(t, ">", lt + 1)
    IN  IF lt = 0 \/ gt = 0 THEN <<>>
        ELSE (IF t[lt + 1] = "/" THEN <<>> ELSE <<SubSeq(t, lt, gt)>>)
             \o StartTags(From(t, gt + 1))

TagName(tag) ==
    SubSeq(tag, 2, Min({i \in 2..Len(tag) : IsSpace(tag[i]) \/ tag[i] \in {"/", ">"}}) - 1)

\* the start tags that the fallback neither removes nor adds
ElementTags(t) ==
    SelectSeq(StartTags(t),
              LAMBDA tag : TagName(tag) \notin {Chars("style"), Chars("defs"), Chars("Defs")})

\* the tokens of the first class attribute of a start tag
ClassTokens(tag) ==
    LET i == Find(tag, Chars(" class=\""), 1)
        v == i + Len(Chars(" class=\""))
    IN  IF i = 0 THEN {}
        ELSE Range(SplitSpaces(SubSeq(tag, v, IndexOf(tag, "\"", v) - 1))) \ {<<>>}

RECURSIVE CountOf(_, _)
CountOf(t, lit) ==
    IF Find(t, lit, 1) = 0 THEN 0
    ELSE 1 + CountOf(From(t, Find(t, lit, 1) + Len(lit)), lit)

C9_FallbackComposesClasses ==
    pc = "fallbackDone" /\ styleMatch(inputFile).content # <<>> =>
        LET rules == styleRegexExec(styleMatch(inputFile).content)
            before == ElementTags(inputFile)
            after == ElementTags(outputFile)
            first(c) == Min({k \in 1..Len(rules) : Trim(rules[k][1]) = c})
            styled(tag) == {c \in ClassTokens(tag) :
                               \E k \in 1..Len(rules) : Trim(rules[k][1]) = c}
        IN  /\ Len(after) = Len(before)
            /\ \A i \in 1..Len(before) :
                   /\ CountOf(before[i], Chars(" class=\"")) = 1
                   /\ CountOf(before[i], Chars(" style=\"")) = 0
                   /\ Cardinality(styled(before[i])) >= 2
                   => /\ CountOf(after[i], Chars(" style=\"")) = 1
                      /\ \A c \in styled(before[i]) :
                             Find(after[i], inlineStyle(Trim(rules[first(c)][2])), 1) # 0

(***************************************************************************)
(* The tree of a document without its tag names: every node in document    *)
(* order with its kind, attributes, text, depth and number of children     *)
(***************************************************************************)
RECURSIVE AllNodes(_, _)
RECURSIVE AllNodesOfAll(_, _)
AllNodes(nodes, n) == <<n>> \o AllNodesOfAll(nodes, nodes[n].kids)
AllNodesOfAll(nodes, ks) ==
    IF ks = <<>> THEN <<>>
    ELSE AllNodes(nodes, Head(ks)) \o AllNodesOfAll(nodes, Tail(ks))

Shape(doc) ==
    LET order == IF doc.root = DocumentNode THEN <<>> ELSE AllNodes(doc.nodes, doc.root)
    IN  [i \in 1..Len(order) |->
            [kind |-> doc.nodes[order[i]].kind,
             attrs |-> doc.nodes[order[i]].attrs,
             data |-> doc.nodes[order[i]].data,
             depth |-> Cardinality(Ancestors(doc.nodes, order[i])),
             kids |-> Len(doc.nodes[order[i]].kids)]]

\* the tag names of the elements, in document order
Tags(doc) == [i \in 1..Len(Elements(doc)) |-> doc.nodes[Elements(doc)[i]].tag]

\* the step of the run that is the call of convertToReactNativeSvg
Renamed == pc = "rename" /\ reactNative /\ pc' = "write"

(***************************************************************************)
(* C2.  convertToReactNativeSvg preserves the tree: as many elements after *)
(* as before, and every node keeps its attributes (names, values, order),  *)
(* its children and its place among its parent's children.                 *)
(***************************************************************************)
C2_RenamePreservesTree ==
    [][Renamed => /\ Len(Elements(document')) = Len(Elements(document))
                  /\ Shape(document') = Shape(document)]_vars

\* renamed: an element with an attribute, after a sibling element and a
\* sibling text
C2_Witness ==
    /\ pc = "write" /\ reactNative
    /\ \E n \in Range(Elements(document)) :
           /\ document.nodes[n].tag = Chars("Circle")
           /\ document.nodes[n].attrs # <<>>
           /\ document.nodes[n].parent # DocumentNode
           /\ Len(document.nodes[document.nodes[n].parent].kids) = 3

structuredResult(file, rn) ==
    LET doc == JSDOM(sanitizedContent(file)).doc
        style == querySelectorDefsStyle(doc)
        inlined == IF style = 0 THEN doc
                   ELSE removeStyleAndDefs(
                            applyClassStyles(doc, classStylesOf(rulesOf(doc, style))),
                            style)
    IN  serialize(IF rn THEN convertToReactNativeSvg(inlined).doc ELSE inlined)

C6_FallbackFromOriginalInput ==
    /\ error # "none" <=> pc \in {"catch", "fallbackDone"}
    /\ pc = "catch" => document = EmptyDocument
    /\ pc \in {"load", "query", "extract", "apply", "prune", "rename", "write", "returned"}
           => outputFile = NoFile
    /\ pc \in {"log", "done"} => outputFile = structuredResult(inputFile, reactNative)
    /\ pc = "fallbackDone" =>
           /\ outputFile = fallbackOutput(inputFile, reactNative)
           /\ ~reactNative /\ ~styleMatch(inputFile).found => outputFile = inputFile

\* the fallback has run after a stage that came after the sanitizing changed
\* the text and the tree was changed
C6_Witness ==
    /\ pc = "fallbackDone"
    /\ error \in {"prune", "rename", "write"}
    /\ sanitizedContent(inputFile) # inputFile
    /\ outputFile # NoFile

(***************************************************************************)
(* C10.  Frame of the structured pipeline: the elements of the output are  *)
(* the elements of the input document less the style element and at most   *)
(* one defs without other element children, and each has, apart from class *)
(* and style, the attributes it has in the input document.                 *)
(***************************************************************************)
frame(attrs) == SelectSeq(attrs, LAMBDA a : a[1] \notin {Chars("class"), Chars("style")})

frames(doc, elements) == [i \in 1..Len(elements) |-> frame(doc.nodes[elements[i]].attrs)]

\* the sets of elements the style-inlining steps may remove from doc
removable(doc) ==
    LET style == querySelectorDefsStyle(doc)
    IN  IF style = 0 THEN {{}}
        ELSE {{style}} \cup
             {{style, d} : d \in {n \in Range(Elements(doc)) :
                                     /\ doc.nodes[n].tag = Chars("defs")
                                     /\ Range(Children(doc.nodes, n)) \subseteq {style}}}

framePreserved(from) ==
    \E gone \in removable(from) :
        frames(document, Elements(document)) =
            frames(from, SelectSeq(Elements(from), LAMBDA n : n \notin gone))

AfterName(tag) == From(tag, Len(TagName(tag)) + 2)

\* token holds class c as a part without being c
holdsAsPart(token, c) == token # c /\ Find(token, c, 1) # 0

C11_FallbackOnlyTokens ==
    pc = "fallbackDone" /\ styleMatch(inputFile).content # <<>> =>
        LET classes == {Trim(m[1]) : m \in Range(styleRegexExec(styleMatch(inputFile).content))}
            before == ElementTags(inputFile)
            after == ElementTags(outputFile)
        IN  /\ Len(after) = Len(before)
            /\ \A i \in 1..Len(before) :
                   /\ CountOf(before[i], Chars(" class=\"")) = 1
                   /\ ClassTokens(before[i]) \cap classes = {}
                   /\ \E token \in ClassTokens(before[i]) : \E c \in classes :
                          holdsAsPart(token, c)
                   => /\ AfterName(after[i]) = AfterName(before[i])
                      /\ CountOf(after[i], Chars("style=\"")) =
                             CountOf(before[i], Chars("style=\""))

====
